---- MODULE Spec2Model ----
(***************************************************************************)
(* Model of mask_rcnn_pytorch/imageutils.cpp: ResizeImage, MoldInputs,     *)
(* UnmoldMask and UnmoldDetections.                                        *)
(*                                                                         *)
(* The functions are synchronous and keep no state between calls, so each  *)
(* specification below draws the arguments of one call in its Init and     *)
(* runs the call's steps.  A call ends in pc = "done" (it returned) or in  *)
(* pc = "error" (a library check threw: cv::resize, cv::copyMakeBorder,    *)
(* cv::Mat::operator(), torch::stack, at::Tensor::size, Tensor::data<T>),  *)
(* with err naming the call that threw.                                    *)
(***************************************************************************)
EXTENDS Integers, Sequences, FiniteSets, TLC

VARIABLES
    pc, err,
    \* ResizeImage: arguments and returned tuple
    image, min_dim, max_dim, do_padding, resized,
    \* MoldInputs: arguments, loop position, the three vectors, the stack
    images, config, idx, molded_images, image_metas, windows, tensor_images,
    \* UnmoldMask: arguments and result
    mask, bbox, image_shape, full_mask,
    \* UnmoldDetections: arguments, locals and result
    detections, mrcnn_mask, window, N, boxes, class_ids, scores, masks, include_ix,
    full_masks_vec, result,
    \* the box drawn in the original image by the round-trip scenario
    orig_box

resizeVars == <<image, min_dim, max_dim, do_padding, resized>>
moldVars == <<images, config, idx, molded_images, image_metas, windows, tensor_images>>
maskVars == <<mask, bbox, image_shape, full_mask>>
unmoldVars == <<detections, mrcnn_mask, window, N, boxes, class_ids, scores, masks, include_ix, full_masks_vec, result>>
vars == <<pc, err, resizeVars, moldVars, maskVars, unmoldVars, orig_box>>

\* Bounds of the model.
MaxSide == 5
MaxCfgDim == 6

\* A value that is not set (yet).
Nil == "nil"

Min(a, b) == IF a < b THEN a ELSE b
Max(a, b) == IF a > b THEN a ELSE b

\* C++ integer division truncates toward zero.
CDiv(a, b) == IF a >= 0 THEN a \div b ELSE -((-a) \div b)

(***************************************************************************)
(* IEEE-754 binary32 ("float").  A positive float is <<m, e>> with         *)
(* 2^23 <= m < 2^24 and value m * 2^e; zero is <<0, 0>>.  Every result is  *)
(* rounded to nearest, ties to even, as the hardware does.                 *)
(***************************************************************************)
MantBits == 24

Pow2(n) == 2 ^ n

\* The number of low bits to drop so that M fits in MantBits bits.
RECURSIVE ExcessBits(_)
ExcessBits(M) == IF M < Pow2(MantBits) THEN 0 ELSE 1 + ExcessBits(M \div 2)

\* The float nearest to M * 2^E, for an integer M >= 0.
RECURSIVE FNorm(_, _)
FNorm(M, E) ==
    IF M = 0 THEN <<0, 0>>
    ELSE IF M < Pow2(MantBits - 1) THEN FNorm(2 * M, E - 1)
    ELSE IF M < Pow2(MantBits) THEN <<M, E>>
    ELSE LET s == ExcessBits(M)
             q == M \div Pow2(s)
             r == M % Pow2(s)
             half == Pow2(s - 1)
             up == r > half \/ (r = half /\ q % 2 = 1)
             q2 == IF up THEN q + 1 ELSE q
         IN IF q2 = Pow2(MantBits) THEN <<Pow2(MantBits - 1), E + s + 1>>
            ELSE <<q2, E + s>>

\* static_cast<float>(n), n >= 0.
ToFloat(n) == FNorm(n, 0)

One == ToFloat(1)

\* The shift k with 2^23 * b <= a * 2^k < 2^24 * b.
RECURSIVE DivShift(_, _, _)
DivShift(a, b, k) ==
    IF a * Pow2(k) >= Pow2(MantBits - 1) * b THEN k ELSE DivShift(a, b, k + 1)

\* static_cast<float>(a) / b for integers 0 <= a, 0 < b (both exact as floats).
FDiv(a, b) ==
    IF a = 0 THEN <<0, 0>>
    ELSE LET k == DivShift(a, b, 0)
             q == (a * Pow2(k)) \div b
             r == (a * Pow2(k)) % b
             up == 2 * r > b \/ (2 * r = b /\ q % 2 = 1)
             q2 == IF up THEN q + 1 ELSE q
         IN IF q2 = Pow2(MantBits) THEN <<Pow2(MantBits - 1), 1 - k>>
            ELSE <<q2, -k>>

\* n * f for an integer n >= 0 (converted exactly) and a float f.
FMul(n, f) == FNorm(n * f[1], f[2])

\* a < b on non-negative floats.
FLess(a, b) ==
    IF b[1] = 0 THEN FALSE
    ELSE IF a[1] = 0 THEN TRUE
    ELSE a[2] < b[2] \/ (a[2] = b[2] /\ a[1] < b[1])

\* std::max / std::min on floats.
FMax(a, b) == IF FLess(a, b) THEN b ELSE a
FMin(a, b) == IF FLess(b, a) THEN b ELSE a

\* std::round: to the nearest integer, halves away from zero (f >= 0).
FRound(f) ==
    IF f[2] >= 0 THEN f[1] * Pow2(f[2])
    ELSE IF -f[2] > MantBits + 1 THEN 0
    ELSE (f[1] + Pow2(-f[2] - 1)) \div Pow2(-f[2])

\* Conversion of a non-negative float to int: truncation.
FTrunc(f) ==
    IF f[2] >= 0 THEN f[1] * Pow2(f[2])
    ELSE IF -f[2] > MantBits THEN 0
    ELSE f[1] \div Pow2(-f[2])

(***************************************************************************)
(* cv::Mat as far as these functions read it: rows, cols and the pixel     *)
(* operations applied to the caller's pixels so far (none: same pixels).   *)
(***************************************************************************)
Mat(rows, cols) == [rows |-> rows, cols |-> cols, ops |-> <<>>]

MkWindow(y1, x1, y2, x2) == [y1 |-> y1, x1 |-> x1, y2 |-> y2, x2 |-> x2]

MkPadding(t, b, l, r) == [top_pad |-> t, bottom_pad |-> b, left_pad |-> l, right_pad |-> r]

\* A default-constructed Padding (the struct is declared in imageutils.h).
DefaultPadding == MkPadding(0, 0, 0, 0)

\* cv::resize(src, dst, dsize): throws on an empty dsize or a negative side.
CvResizeThrows(width, height) == width <= 0 \/ height <= 0

CvResize(img, width, height) ==
    [rows |-> height, cols |-> width,
     ops |-> Append(img.ops, <<"resize", width, height>>)]

\* cv::copyMakeBorder: throws on a negative border.
CopyMakeBorderThrows(t, b, l, r) == t < 0 \/ b < 0 \/ l < 0 \/ r < 0

CopyMakeBorder(img, t, b, l, r) ==
    [rows |-> img.rows + t + b, cols |-> img.cols + l + r,
     ops |-> Append(img.ops, <<"border", t, b, l, r>>)]

(***************************************************************************)
(* ResizeImage                                                             *)
(***************************************************************************)
\* if (min_dim != 0) scale = max(1.f, float(min_dim) / min(h, w));
MinDimScale(h, w, mind) ==
    IF mind # 0 THEN FMax(One, FDiv(mind, Min(h, w))) ELSE One

\* Mutant of MaxDimScale: the cap divides by the shorter side.
MaxDimScale_ShortSide(h, w, maxd, scale) ==
    IF maxd # 0 /\ FRound(FMul(Max(h, w), scale)) > maxd
    THEN FDiv(maxd, Min(h, w))
    ELSE scale

\* if (max_dim != 0 && round(image_max * scale) > max_dim) scale = max_dim / image_max;
MaxDimScale(h, w, maxd, scale) ==
    IF maxd # 0 /\ FRound(FMul(Max(h, w), scale)) > maxd
    THEN FDiv(maxd, Max(h, w))
    ELSE scale

\* The four border widths computed from the resized h and w.
TopPad(maxd, h) == CDiv(maxd - h, 2)
\* Mutant of BottomPad: the bottom border repeats the floor half.
BottomPad_FloorHalf(maxd, h) == CDiv(maxd - h, 2)

BottomPad(maxd, h) == maxd - h - TopPad(maxd, h)
LeftPad(maxd, w) == CDiv(maxd - w, 2)
RightPad(maxd, w) == maxd - w - LeftPad(maxd, w)

\* The window set in the padding branch.
PaddedWindow(maxd, h, w) ==
    MkWindow(TopPad(maxd, h), LeftPad(maxd, w), h + TopPad(maxd, h), w + LeftPad(maxd, w))

\* The tuple ResizeImage returns, or the call that threw.
ResizeImage(img, mind, maxd, pad) ==
    LET h0 == img.rows
        w0 == img.cols
        scale == MaxDimScale(h0, w0, maxd, MinDimScale(h0, w0, mind))
        nw == FRound(FMul(w0, scale))
        nh == FRound(FMul(h0, scale))
    IN IF scale # One /\ CvResizeThrows(nw, nh)
       THEN [ok |-> FALSE, err |-> "cv::resize"]
       ELSE LET img1 == IF scale # One THEN CvResize(img, nw, nh) ELSE img
                h == img1.rows
                w == img1.cols
            IN IF ~pad
               THEN [ok |-> TRUE, image |-> img1, window |-> MkWindow(0, 0, h0, w0),
                     scale |-> scale, padding |-> DefaultPadding]
               ELSE IF CopyMakeBorderThrows(TopPad(maxd, h), BottomPad(maxd, h),
                                            LeftPad(maxd, w), RightPad(maxd, w))
               THEN [ok |-> FALSE, err |-> "cv::copyMakeBorder"]
               ELSE [ok |-> TRUE,
                     image |-> CopyMakeBorder(img1, TopPad(maxd, h), BottomPad(maxd, h),
                                              LeftPad(maxd, w), RightPad(maxd, w)),
                     window |-> PaddedWindow(maxd, h, w),
                     scale |-> scale,
                     padding |-> MkPadding(TopPad(maxd, h), BottomPad(maxd, h),
                                           LeftPad(maxd, w), RightPad(maxd, w))]

(***************************************************************************)
(* Values of the variables a specification does not use.                   *)
(***************************************************************************)
IdleResize ==
    /\ image = Nil /\ min_dim = 0 /\ max_dim = 0 /\ do_padding = FALSE /\ resized = Nil

IdleMold ==
    /\ images = <<>> /\ config = Nil /\ idx = 0 /\ molded_images = <<>>
    /\ image_metas = <<>> /\ windows = <<>> /\ tensor_images = Nil

IdleMask ==
    /\ mask = Nil /\ bbox = Nil /\ image_shape = Nil /\ full_mask = Nil

IdleUnmold ==
    /\ detections = <<>> /\ mrcnn_mask = Nil /\ window = Nil /\ N = 0 /\ boxes = <<>> /\ class_ids = Nil
    /\ scores = <<>> /\ masks = <<>> /\ include_ix = Nil /\ full_masks_vec = <<>>
    /\ result = Nil

(***************************************************************************)
(* SpecResize: one call of ResizeImage.                                    *)
(***************************************************************************)
InitResize ==
    /\ pc = "ResizeImage" /\ err = Nil
    /\ image \in {Mat(h, w) : h \in 1..MaxSide, w \in 1..MaxSide}
    /\ min_dim \in 0..MaxCfgDim
    /\ max_dim \in 0..MaxCfgDim
    /\ do_padding \in BOOLEAN
    /\ resized = Nil
    /\ IdleMold /\ IdleMask /\ IdleUnmold /\ orig_box = Nil

ResizeReturns ==
    /\ pc = "ResizeImage"
    /\ ResizeImage(image, min_dim, max_dim, do_padding).ok
    /\ resized' = ResizeImage(image, min_dim, max_dim, do_padding)
    /\ pc' = "done"
    /\ UNCHANGED <<err, image, min_dim, max_dim, do_padding, moldVars, maskVars, unmoldVars, orig_box>>

ResizeThrows ==
    /\ pc = "ResizeImage"
    /\ ~ResizeImage(image, min_dim, max_dim, do_padding).ok
    /\ err' = ResizeImage(image, min_dim, max_dim, do_padding).err
    /\ pc' = "error"
    /\ UNCHANGED <<image, min_dim, max_dim, do_padding, resized, moldVars, maskVars, unmoldVars, orig_box>>

NextResize == ResizeReturns \/ ResizeThrows

SpecResize == InitResize /\ [][NextResize]_vars

(***************************************************************************)
(* Claims about ResizeImage (SpecResize).                                  *)
(***************************************************************************)
WindowInside(win, img) ==
    /\ win.y2 >= win.y1 /\ win.x2 >= win.x1
    /\ 0 <= win.y1 /\ 0 <= win.x1
    /\ win.y2 <= img.rows /\ win.x2 <= img.cols

\* C4 (as claimed): with min_dim = 0 and max_dim = 0, for both values of
\* do_padding, the call returns the caller's image (same size, no pixel
\* operation applied), scale 1, window {0, 0, h, w} and padding {0, 0, 0, 0}.
C4_ZeroDimsIdentity ==
    (pc # "ResizeImage" /\ min_dim = 0 /\ max_dim = 0) =>
        /\ pc = "done"
        /\ resized.image = image
        /\ resized.scale = One
        /\ resized.window = MkWindow(0, 0, image.rows, image.cols)
        /\ resized.padding = MkPadding(0, 0, 0, 0)

\* C5 (as claimed): every window ResizeImage returns is well-formed and lies
\* inside the image returned with it.
C5_WindowInsideReturnedImage ==
    pc = "done" => WindowInside(resized.window, resized.image)

\* The content size h' x w' that the returned scale gives the caller's image.
ContentRows == IF resized.scale = One THEN image.rows ELSE FRound(FMul(image.rows, resized.scale))
ContentCols == IF resized.scale = One THEN image.cols ELSE FRound(FMul(image.cols, resized.scale))

MaxBatch == 2
MaxMoldSide == 2
MaxMoldDim == 3
\* config.gpu_count: no device, one device.
GpuCounts == {0, 1}
NumClasses == 2

\* molded_image.convertTo(CV_32FC3) and MoldImage: pixel operations, same size.
MoldImage(img) ==
    [rows |-> img.rows, cols |-> img.cols,
     ops |-> img.ops \o <<<<"convertTo", "CV_32FC3">>, <<"subtract", "mean_pixel">>>>]

\* ImageMeta{0, image.rows, image.cols, window, vector<int32_t>(num_classes, 0)}
MkImageMeta(img, win, cfg) ==
    [image_id |-> 0, image_height |-> img.rows, image_width |-> img.cols,
     window |-> win, active_class_ids |-> [c \in 1..cfg.num_classes |-> 0]]

\* CvImageToTensor: a tensor of dims {channels, rows, cols}.
CvImageToTensor(img) == [shape |-> <<3, img.rows, img.cols>>, ops |-> img.ops]

\* torch::stack throws on an empty list and on tensors of different sizes.
StackThrows(ts) ==
    \/ Len(ts) = 0
    \/ \E i \in 1..Len(ts) : ts[i].shape # ts[1].shape

\* torch::stack(molded_images), then .cuda() when config.gpu_count > 0.
Stack(ts, cfg) ==
    [shape |-> <<Len(ts)>> \o ts[1].shape,
     device |-> IF cfg.gpu_count > 0 THEN "cuda" ELSE "cpu"]

InitMold ==
    /\ pc = "MoldInputs.loop" /\ err = Nil
    /\ \E n \in 0..MaxBatch :
         images \in [1..n -> {Mat(h, w) : h \in 1..MaxMoldSide, w \in 1..MaxMoldSide}]
    /\ config \in [image_min_dim : 0..MaxMoldDim, image_max_dim : 0..MaxMoldDim,
                   image_padding : BOOLEAN, num_classes : {NumClasses},
                   gpu_count : GpuCounts]
    /\ idx = 0
    /\ molded_images = <<>> /\ image_metas = <<>> /\ windows = <<>>
    /\ tensor_images = Nil
    /\ IdleResize /\ IdleMask /\ IdleUnmold /\ orig_box = Nil

\* The tuple ResizeImage returns for the image the loop is at.
MoldResize ==
    ResizeImage(images[idx + 1], config.image_min_dim, config.image_max_dim,
                config.image_padding)

\* One iteration of the loop over images.
MoldOne ==
    /\ pc = "MoldInputs.loop"
    /\ idx < Len(images)
    /\ MoldResize.ok
    /\ molded_images' = Append(molded_images, CvImageToTensor(MoldImage(MoldResize.image)))
    /\ windows' = Append(windows, MoldResize.window)
    /\ image_metas' = Append(image_metas, MkImageMeta(images[idx + 1], MoldResize.window, config))
    /\ idx' = idx + 1
    /\ UNCHANGED <<pc, err, images, config, tensor_images, resizeVars, maskVars, unmoldVars, orig_box>>

\* An iteration in which ResizeImage throws.
MoldOneThrows ==
    /\ pc = "MoldInputs.loop"
    /\ idx < Len(images)
    /\ ~MoldResize.ok
    /\ pc' = "error"
    /\ err' = MoldResize.err
    /\ UNCHANGED <<moldVars, resizeVars, maskVars, unmoldVars, orig_box>>

\* The loop is over: the vectors are complete and torch::stack comes next.
MoldLoopEnds ==
    /\ pc = "MoldInputs.loop"
    /\ idx = Len(images)
    /\ pc' = "MoldInputs.stack"
    /\ UNCHANGED <<err, moldVars, resizeVars, maskVars, unmoldVars, orig_box>>

MoldStackReturns ==
    /\ pc = "MoldInputs.stack"
    /\ ~StackThrows(molded_images)
    /\ tensor_images' = Stack(molded_images, config)
    /\ pc' = "done"
    /\ UNCHANGED <<err, images, config, idx, molded_images, image_metas, windows,
                   resizeVars, maskVars, unmoldVars, orig_box>>

MoldStackThrows ==
    /\ pc = "MoldInputs.stack"
    /\ StackThrows(molded_images)
    /\ pc' = "error"
    /\ err' = "torch::stack"
    /\ UNCHANGED <<moldVars, resizeVars, maskVars, unmoldVars, orig_box>>

NextMold == MoldOne \/ MoldOneThrows \/ MoldLoopEnds \/ MoldStackReturns \/ MoldStackThrows

SpecMold == InitMold /\ [][NextMold]_vars

(***************************************************************************)
(* Claims about MoldInputs (SpecMold).                                     *)
(***************************************************************************)
SameShapes(ts) == \A i, j \in 1..Len(ts) : ts[i].shape = ts[j].shape

\* One entry per input image, in input order.
OnePerImageInOrder ==
    /\ Len(image_metas) = Len(images)
    /\ Len(windows) = Len(images)
    /\ \A i \in 1..Len(images) :
         /\ image_metas[i].image_height = images[i].rows
         /\ image_metas[i].image_width = images[i].cols
         /\ image_metas[i].window = windows[i]

\* C7 (as claimed): for every batch and every configuration the per-image
\* buffers have the same height and width where they are stacked, stacking
\* succeeds, and image_metas and windows hold one entry per image, in order
\* (read for the batches that hold an image).
C7_StackAlwaysSucceeds ==
    Len(images) > 0 =>
        /\ pc = "MoldInputs.stack" => SameShapes(molded_images) /\ OnePerImageInOrder
        /\ pc = "error" => err # "torch::stack"
        /\ pc = "done" => OnePerImageInOrder

\* The configurations and batches for which the sizes are uniform.
UniformMolding ==
    \/ config.image_padding /\ config.image_max_dim > 0
    \/ \A i, j \in 1..Len(images) : images[i] = images[j]

\* C7 (amended): for a non-empty batch molded with image_padding and
\* image_max_dim > 0, or whose images all have one size, the buffers that
\* reach the stacking point have the same height and width and stacking
\* succeeds; whenever the stacking point is reached or MoldInputs returns,
\* image_metas and windows hold one entry per input image, in input order,
\* and the batch holds one buffer per image.
C7_StackSucceedsWhenUniform ==
    /\ (pc = "MoldInputs.stack" /\ UniformMolding) => SameShapes(molded_images)
    /\ pc = "MoldInputs.stack" => OnePerImageInOrder
    /\ (pc = "error" /\ err = "torch::stack") => (Len(images) = 0 \/ ~UniformMolding)
    /\ pc = "done" =>
        /\ OnePerImageInOrder
        /\ tensor_images.shape = <<Len(images)>> \o molded_images[1].shape
        /\ (config.image_padding /\ config.image_max_dim > 0) =>
              tensor_images.shape = <<Len(images), 3, config.image_max_dim, config.image_max_dim>>

\* C7's case: two images of different sizes, padded to one canvas and stacked.
C7_Witness ==
    /\ pc = "done"
    /\ Len(images) = 2
    /\ images[1].rows # images[2].rows
    /\ images[1].cols # images[2].cols
    /\ config.image_padding /\ config.image_max_dim > 0
    /\ tensor_images.shape[1] = 2

(***************************************************************************)
(* UnmoldMask                                                              *)
(*                                                                         *)
(* A low-resolution mask is a matrix (a sequence of rows) of the values 0  *)
(* and 1; a full mask is a matrix of the values 0 and 255.  A box is       *)
(* <<y1, x1, y2, x2>>; image_shape is a cv::Size.                          *)
(***************************************************************************)
MaxShape == 3

MkSize(width, height) == [width |-> width, height |-> height]

\* cv::resize, INTER_LINEAR, along one axis: the source index and the weight of
\* its right neighbour (in units of 1 / (2 * dst)) for destination index d;
\* fx = (d + 0.5) * src / dst - 0.5, clamped at both ends.
LinearTap(d, src, dst) ==
    LET n == (2 * d + 1) * src - dst
        s0 == n \div (2 * dst)
    IN IF s0 < 0 THEN <<0, 0>>
       ELSE IF s0 >= src - 1 THEN <<src - 1, 0>>
       ELSE <<s0, n - s0 * 2 * dst>>

\* The resized mask at destination row dy, column dx (from 0), in units of
\* 1 / (4 * dw * dh).
LinearPixel(m, dy, dx, dw, dh) ==
    LET ty == LinearTap(dy, Len(m), dh)
        tx == LinearTap(dx, Len(m[1]), dw)
        sy == ty[1] + 1
        sx == tx[1] + 1
        fy == ty[2]
        fx == tx[2]
        a == (2 * dh - fy) * (2 * dw - fx) * m[sy][sx]
        b == IF fx = 0 THEN 0 ELSE (2 * dh - fy) * fx * m[sy][sx + 1]
        c == IF fy = 0 THEN 0 ELSE fy * (2 * dw - fx) * m[sy + 1][sx]
        d == IF fx = 0 \/ fy = 0 THEN 0 ELSE fy * fx * m[sy + 1][sx + 1]
    IN a + b + c + d

\* cv::threshold(.., 0.5, 1, THRESH_BINARY) and cv_mask *= 255 on that pixel.
ThresholdPixel(v4, dw, dh) == IF 2 * v4 > 4 * dw * dh THEN 255 ELSE 0

\* cv::Mat::operator()(cv::Rect) throws when the rectangle leaves the matrix.
RoiThrows(x, y, w, h, shape) ==
    ~(0 <= x /\ 0 <= w /\ x + w <= shape.width /\ 0 <= y /\ 0 <= h /\ y + h <= shape.height)

\* Mutant of PasteRect: the rectangle is built as Rect(y1, x1, ..).
PasteRect_Swapped(b) == [x |-> b[1], y |-> b[2], width |-> b[4] - b[2], height |-> b[3] - b[1]]

\* cv::Rect(x1, y1, x2 - x1, y2 - y1)
PasteRect(b) == [x |-> b[2], y |-> b[1], width |-> b[4] - b[2], height |-> b[3] - b[1]]

\* The call that throws in UnmoldMask, or Nil.
UnmoldMaskError(m, b, shape) ==
    IF CvResizeThrows(b[4] - b[2], b[3] - b[1]) THEN "cv::resize"
    ELSE IF RoiThrows(PasteRect(b).x, PasteRect(b).y, PasteRect(b).width,
                      PasteRect(b).height, shape)
    THEN "cv::Mat::operator()"
    ELSE Nil

\* The full mask UnmoldMask returns: zeros of image_shape with the resized,
\* thresholded mask copied into the box rectangle.
UnmoldMask(m, b, shape) ==
    LET r == PasteRect(b)
    IN [y \in 1..shape.height |->
         [x \in 1..shape.width |->
            IF /\ r.x < x /\ x <= r.x + r.width
               /\ r.y < y /\ y <= r.y + r.height
            THEN ThresholdPixel(LinearPixel(m, y - 1 - r.y, x - 1 - r.x, r.width, r.height),
                                r.width, r.height)
            ELSE 0]]

\* The low-resolution masks the model draws from.
Ones1 == <<<<1>>>>
Ones2 == <<<<1, 1>>, <<1, 1>>>>
Zeros2 == <<<<0, 0>>, <<0, 0>>>>
Left2 == <<<<1, 0>>, <<1, 0>>>>
Corner2 == <<<<1, 0>>, <<0, 0>>>>
LowResMasks == {Ones1, Ones2, Zeros2, Left2, Corner2}

InitMask ==
    /\ pc = "UnmoldMask" /\ err = Nil
    /\ mask \in LowResMasks
    /\ image_shape \in {MkSize(w, h) : w \in 1..MaxShape, h \in 1..MaxShape}
    /\ bbox \in {<<y1, x1, y2, x2>> : y1 \in 0..MaxShape, x1 \in 0..MaxShape,
                                      y2 \in 0..MaxShape, x2 \in 0..MaxShape}
    /\ full_mask = Nil
    /\ IdleResize /\ IdleMold /\ IdleUnmold /\ orig_box = Nil

MaskReturns ==
    /\ pc = "UnmoldMask"
    /\ UnmoldMaskError(mask, bbox, image_shape) = Nil
    /\ full_mask' = UnmoldMask(mask, bbox, image_shape)
    /\ pc' = "done"
    /\ UNCHANGED <<err, mask, bbox, image_shape, resizeVars, moldVars, unmoldVars, orig_box>>

MaskThrows ==
    /\ pc = "UnmoldMask"
    /\ UnmoldMaskError(mask, bbox, image_shape) # Nil
    /\ err' = UnmoldMaskError(mask, bbox, image_shape)
    /\ pc' = "error"
    /\ UNCHANGED <<maskVars, resizeVars, moldVars, unmoldVars, orig_box>>

NextMask == MaskReturns \/ MaskThrows

SpecMask == InitMask /\ [][NextMask]_vars

(***************************************************************************)
(* Claims about UnmoldMask (SpecMask).                                     *)
(***************************************************************************)
AllOnes(m) == \A r \in 1..Len(m) : \A c \in 1..Len(m[r]) : m[r][c] = 1

\* The box is non-degenerate and lies inside an image of image_shape.
BoxInsideShape(b, shape) ==
    /\ b[4] - b[2] > 0 /\ b[3] - b[1] > 0
    /\ 0 <= b[1] /\ 0 <= b[2] /\ b[3] <= shape.height /\ b[4] <= shape.width

\* The pixels (row, column, from 0) of a full mask that hold 255.
SetPixels(fm) ==
    {<<y, x>> \in (0..(Len(fm) - 1)) \X (0..(MaxShape + 1)) :
        x < Len(fm[y + 1]) /\ fm[y + 1][x + 1] = 255}

\* C9: for an all-ones mask and a non-degenerate box inside the image, the
\* call returns a mask of exactly image_shape whose pixels are 255 inside
\* [x1, x2) x [y1, y2) and 0 elsewhere: bw * bh pixels are set.
C9_AllOnesFillsBox ==
    (pc # "UnmoldMask" /\ AllOnes(mask) /\ BoxInsideShape(bbox, image_shape)) =>
        /\ pc = "done"
        /\ Len(full_mask) = image_shape.height
        /\ \A y \in 1..Len(full_mask) : Len(full_mask[y]) = image_shape.width
        /\ \A y \in 1..Len(full_mask) : \A x \in 1..Len(full_mask[y]) :
             full_mask[y][x] =
                IF bbox[2] <= x - 1 /\ x - 1 < bbox[4] /\ bbox[1] <= y - 1 /\ y - 1 < bbox[3]
                THEN 255 ELSE 0
        /\ Cardinality(SetPixels(full_mask)) = (bbox[4] - bbox[2]) * (bbox[3] - bbox[1])

\* C9's case: an all-ones 2 x 2 mask stretched over a 1 x 2 box that leaves
\* part of a non-square image uncovered.
C9_Witness ==
    /\ pc = "done" /\ mask = Ones2
    /\ BoxInsideShape(bbox, image_shape)
    /\ bbox[4] - bbox[2] = 2 /\ bbox[3] - bbox[1] = 1
    /\ bbox[1] = 1 /\ bbox[2] = 0
    /\ image_shape.width # image_shape.height
    /\ Cardinality(SetPixels(full_mask)) = 2

(***************************************************************************)
(* UnmoldDetections                                                        *)
(*                                                                         *)
(* detections is a sequence of rows {y1, x1, y2, x2, class_id, score};     *)
(* mrcnn_mask[i][c] is the low-resolution mask of row i for class c.  A    *)
(* tensor whose shape matters (squeeze, size) is [shape, data].            *)
(***************************************************************************)
MaxRows == 3
ByteRange == 256

MkRow(box, class_id, score) == [box |-> box, class_id |-> class_id, score |-> score]

ZeroRow == MkRow(<<0, 0, 0, 0>>, 0, 0)

\* squeeze(): every dimension of size 1 is removed.
Squeeze(shape) == SelectSeq(shape, LAMBDA d : d # 1)

\* at::Tensor::size(0) throws on a tensor without dimensions.
Size0Throws(t) == Len(t.shape) = 0

\* (detections.narrow(1, 4, 1) == 0).nonzero(): the indices (from 0) of the
\* rows whose class_id is zero, in increasing order.
ZeroIx(dets) ==
    SelectSeq([i \in 1..Len(dets) |-> i - 1], LAMBDA k : dets[k + 1].class_id = 0)

\* *zero_ix[0].data<uint8_t>(): the low byte of the 64-bit index.
ByteView(ix) == ix % ByteRange

\* index_select_2d(arange(N), class_ids, mrcnn_mask, 3) (nnutils): row i's
\* mask for row i's class.
IndexSelect2d(n, ids, stack) == [i \in 1..n |-> stack[i][ids[i]]]

\* The single scale of the remapping: min(h_scale, w_scale).
UnmoldScale(shape, win) ==
    FMin(FDiv(shape.height, win.y2 - win.y1), FDiv(shape.width, win.x2 - win.x1))

\* One coordinate: ((c - shift) * scale).to(kInt), truncated toward zero.
RemapCoord(c, shift, scale) ==
    IF c - shift >= 0 THEN FTrunc(FMul(c - shift, scale))
    ELSE -FTrunc(FMul(shift - c, scale))

\* ((boxes - shifts) * scales).to(kInt) on one box.
RemapBox(b, shape, win) ==
    LET scale == UnmoldScale(shape, win)
    IN <<RemapCoord(b[1], win.y1, scale), RemapCoord(b[2], win.x1, scale),
         RemapCoord(b[3], win.y1, scale), RemapCoord(b[4], win.x1, scale)>>

\* The filter's test on one remapped box: (y2 - y1) * (x2 - x1) > 0.
AreaPositive(b) == (b[3] - b[1]) * (b[4] - b[2]) > 0

\* The indices (from 1) of the boxes the filter's test accepts, in order.
Included(bs) == SelectSeq([i \in 1..Len(bs) |-> i], LAMBDA i : AreaPositive(bs[i]))

\* include_ix: nonzero(), narrow(1, 0, 1), squeeze().
IncludeIx(bs) == [shape |-> Squeeze(<<Len(Included(bs)), 1>>), data |-> Included(bs)]

\* t.index_select(0, include_ix) on a sequence of rows.
IndexSelect(rows, ix) == [j \in 1..Len(ix) |-> rows[ix[j]]]

\* The two mask stacks the model draws from, for a buffer of n rows.
StackByClass(n) ==
    [i \in 1..n |-> [c \in 0..NumClasses |-> IF c % 2 = 1 THEN Ones2 ELSE Left2]]
StackByRow(n) ==
    [i \in 1..n |-> [c \in 0..NumClasses |-> IF (i + c) % 2 = 0 THEN Ones1 ELSE Corner2]]

\* The scenes: the original image size and the window ResizeImage gave it.
Scenes ==
    {<<MkSize(4, 4), MkWindow(0, 0, 4, 4)>>,
     <<MkSize(4, 4), MkWindow(1, 1, 3, 3)>>,
     <<MkSize(2, 2), MkWindow(0, 0, 4, 4)>>,
     <<MkSize(4, 2), MkWindow(1, 0, 3, 4)>>}

\* The boxes a valid row may hold: inside the window, in the molded frame.
SceneBoxes(win) ==
    {<<win.y1, win.x1, win.y2, win.x2>>,
     <<win.y1, win.x1, win.y1 + 1, win.x1 + 1>>,
     <<win.y1 + 1, win.x1 + 1, win.y2, win.x2>>,
     <<win.y1, win.x1, win.y2, win.x1>>,
     <<win.y2, win.x2, win.y1, win.x1>>,
     <<win.y2, win.x1, win.y1, win.x2>>}

\* A buffer of cap rows: the rows of valid (scores descending), zero-padded.
PaddedBuffer(valid, cap) ==
    [i \in 1..cap |-> IF i <= Len(valid)
                      THEN MkRow(valid[i][1], valid[i][2], 100 - i)
                      ELSE ZeroRow]

InitUnmold ==
    /\ pc = "UnmoldDetections.count" /\ err = Nil
    /\ \E sc \in Scenes : image_shape = sc[1] /\ window = sc[2]
    /\ \E cap \in 0..MaxRows : \E n \in 0..cap :
         \E valid \in [1..n -> SceneBoxes(window) \X (1..NumClasses)] :
            /\ detections = PaddedBuffer(valid, cap)
            /\ mrcnn_mask \in {StackByClass(cap), StackByRow(cap)}
    /\ N = 0 /\ boxes = <<>> /\ class_ids = Nil /\ scores = <<>> /\ masks = <<>>
    /\ include_ix = Nil /\ full_masks_vec = <<>> /\ result = Nil
    /\ mask = Nil /\ bbox = Nil /\ full_mask = Nil
    /\ IdleResize /\ IdleMold /\ orig_box = Nil

unmoldArgs == <<detections, mrcnn_mask, window, image_shape, mask, bbox, full_mask>>

\* No row has class_id zero: N = detections.size(0).
CountNoZero ==
    /\ pc = "UnmoldDetections.count"
    /\ ZeroIx(detections) = <<>>
    /\ N' = Len(detections)
    /\ pc' = "UnmoldDetections.extract"
    /\ UNCHANGED <<err, unmoldArgs, boxes, class_ids, scores, masks, include_ix,
                   full_masks_vec, result, resizeVars, moldVars, orig_box>>

\* A row has class_id zero and data<uint8_t>() on the int64 index tensor
\* returns its storage unchecked: N is the low byte of the first index.
CountByte ==
    /\ pc = "UnmoldDetections.count"
    /\ ZeroIx(detections) # <<>>
    /\ N' = ByteView(ZeroIx(detections)[1])
    /\ pc' = "UnmoldDetections.extract"
    /\ UNCHANGED <<err, unmoldArgs, boxes, class_ids, scores, masks, include_ix,
                   full_masks_vec, result, resizeVars, moldVars, orig_box>>

\* A row has class_id zero and data<uint8_t>() checks the tensor's scalar
\* type (Long, not Byte): it throws.
CountThrows ==
    /\ pc = "UnmoldDetections.count"
    /\ ZeroIx(detections) # <<>>
    /\ pc' = "error"
    /\ err' = "Tensor::data<uint8_t>"
    /\ UNCHANGED <<unmoldVars, maskVars, resizeVars, moldVars, orig_box>>

\* boxes, class_ids, scores and masks of the first N rows.
Extract ==
    /\ pc = "UnmoldDetections.extract"
    /\ boxes' = [i \in 1..N |-> detections[i].box]
    /\ class_ids' = [shape |-> Squeeze(<<N, 1>>),
                     data |-> [i \in 1..N |-> detections[i].class_id]]
    /\ scores' = [i \in 1..N |-> detections[i].score]
    /\ masks' = IndexSelect2d(N, [i \in 1..N |-> detections[i].class_id], mrcnn_mask)
    /\ pc' = "UnmoldDetections.remap"
    /\ UNCHANGED <<err, unmoldArgs, N, include_ix, full_masks_vec, result,
                   resizeVars, moldVars, orig_box>>

\* Translate bounding boxes to image domain.
Remap ==
    /\ pc = "UnmoldDetections.remap"
    /\ boxes' = [i \in 1..Len(boxes) |-> RemapBox(boxes[i], image_shape, window)]
    /\ pc' = "UnmoldDetections.filter"
    /\ UNCHANGED <<err, unmoldArgs, N, class_ids, scores, masks, include_ix,
                   full_masks_vec, result, resizeVars, moldVars, orig_box>>

\* include_ix.size(0) > 0: the four tensors are filtered and N is their size.
FilterKeeps ==
    /\ pc = "UnmoldDetections.filter"
    /\ ~Size0Throws(IncludeIx(boxes))
    /\ IncludeIx(boxes).shape[1] > 0
    /\ include_ix' = IncludeIx(boxes)
    /\ boxes' = IndexSelect(boxes, IncludeIx(boxes).data)
    /\ class_ids' = [shape |-> <<Len(IncludeIx(boxes).data)>>,
                     data |-> IndexSelect(class_ids.data, IncludeIx(boxes).data)]
    /\ scores' = IndexSelect(scores, IncludeIx(boxes).data)
    /\ masks' = IndexSelect(masks, IncludeIx(boxes).data)
    /\ N' = Len(IncludeIx(boxes).data)
    /\ pc' = "UnmoldDetections.masks"
    /\ UNCHANGED <<err, unmoldArgs, full_masks_vec, result, resizeVars, moldVars, orig_box>>

\* include_ix.size(0) = 0: the else branch leaves every tensor and N as they are.
FilterNone ==
    /\ pc = "UnmoldDetections.filter"
    /\ ~Size0Throws(IncludeIx(boxes))
    /\ IncludeIx(boxes).shape[1] = 0
    /\ include_ix' = IncludeIx(boxes)
    /\ pc' = "UnmoldDetections.masks"
    /\ UNCHANGED <<err, unmoldArgs, N, boxes, class_ids, scores, masks,
                   full_masks_vec, result, resizeVars, moldVars, orig_box>>

\* Exactly one box passes: squeeze() leaves include_ix without dimensions and
\* include_ix.size(0) throws.
FilterThrows ==
    /\ pc = "UnmoldDetections.filter"
    /\ Size0Throws(IncludeIx(boxes))
    /\ include_ix' = IncludeIx(boxes)
    /\ pc' = "error"
    /\ err' = "Tensor::size"
    /\ UNCHANGED <<unmoldArgs, N, boxes, class_ids, scores, masks,
                   full_masks_vec, result, resizeVars, moldVars, orig_box>>

\* One iteration of the loop over the N masks.
MaskOne ==
    /\ pc = "UnmoldDetections.masks"
    /\ Len(full_masks_vec) < N
    /\ LET i == Len(full_masks_vec) + 1
       IN /\ UnmoldMaskError(masks[i], boxes[i], image_shape) = Nil
          /\ full_masks_vec' = Append(full_masks_vec, UnmoldMask(masks[i], boxes[i], image_shape))
    /\ UNCHANGED <<pc, err, unmoldArgs, N, boxes, class_ids, scores, masks, include_ix,
                   result, resizeVars, moldVars, orig_box>>

\* An iteration in which UnmoldMask throws.
MaskOneThrows ==
    /\ pc = "UnmoldDetections.masks"
    /\ Len(full_masks_vec) < N
    /\ LET i == Len(full_masks_vec) + 1
       IN /\ UnmoldMaskError(masks[i], boxes[i], image_shape) # Nil
          /\ err' = UnmoldMaskError(masks[i], boxes[i], image_shape)
    /\ pc' = "error"
    /\ UNCHANGED <<unmoldVars, maskVars, resizeVars, moldVars, orig_box>>

\* return {boxes, class_ids, scores, full_masks_vec};
UnmoldReturns ==
    /\ pc = "UnmoldDetections.masks"
    /\ Len(full_masks_vec) = N
    /\ result' = [boxes |-> boxes, class_ids |-> class_ids.data, scores |-> scores,
                  full_masks |-> full_masks_vec]
    /\ pc' = "done"
    /\ UNCHANGED <<err, unmoldArgs, N, boxes, class_ids, scores, masks, include_ix,
                   full_masks_vec, resizeVars, moldVars, orig_box>>

NextUnmold ==
    \/ CountNoZero \/ CountByte \/ CountThrows
    \/ Extract \/ Remap
    \/ FilterKeeps \/ FilterNone \/ FilterThrows
    \/ MaskOne \/ MaskOneThrows \/ UnmoldReturns

SpecUnmold == InitUnmold /\ [][NextUnmold]_vars

(***************************************************************************)
(* Claims about UnmoldDetections (SpecUnmold).                             *)
(***************************************************************************)
\* The count of valid rows: the index of the first row with class_id zero, or
\* the number of rows.
ValidCount ==
    IF \E i \in 1..Len(detections) : detections[i].class_id = 0
    THEN (CHOOSE i \in 1..Len(detections) :
             /\ detections[i].class_id = 0
             /\ \A j \in 1..(i - 1) : detections[j].class_id # 0) - 1
    ELSE Len(detections)

\* A degenerate box: x2 <= x1 or y2 <= y1.
Degenerate(b) == b[4] <= b[2] \/ b[3] <= b[1]

\* The remapped box of row i.
Remapped(i) == RemapBox(detections[i].box, image_shape, window)

\* The valid rows whose remapped box is not degenerate, in buffer order.
RECURSIVE RetainedFrom(_)
RetainedFrom(i) ==
    IF i > ValidCount THEN <<>>
    ELSE IF Degenerate(Remapped(i)) THEN RetainedFrom(i + 1)
    ELSE <<i>> \o RetainedFrom(i + 1)

Retained == RetainedFrom(1)

\* The count step did not throw (the claims below are about the later steps).
CountDidNotThrow == err # "Tensor::data<uint8_t>"

\* C1 (as claimed): once the filter has run, the boxes tensor (the one the
\* return statement hands back) holds no degenerate box and at most N boxes,
\* whether some, all or none of the remapped boxes are degenerate.
C1_NoDegenerateBoxAfterFilter ==
    pc \in {"UnmoldDetections.masks", "done"} =>
        /\ \A i \in 1..Len(boxes) : ~Degenerate(boxes[i])
        /\ Len(boxes) <= ValidCount
        /\ pc = "done" => result.boxes = boxes

\* C2 (as claimed): when every valid row is filtered out (or there is none),
\* the call completes normally, returns empty boxes, class ids, scores and
\* full masks, and UnmoldMask is not called (the mask loop has nothing to do).
C2_AllFilteredReturnsEmpty ==
    (Retained = <<>> /\ CountDidNotThrow) =>
        /\ pc # "error"
        /\ pc = "UnmoldDetections.masks" =>
              N = 0 /\ boxes = <<>> /\ masks = <<>> /\ full_masks_vec = <<>>
        /\ pc = "done" =>
              /\ result.boxes = <<>> /\ result.class_ids = <<>>
              /\ result.scores = <<>> /\ result.full_masks = <<>>

\* C10 (as claimed): with k >= 1 retained detections the call returns k boxes,
\* class ids, scores and full masks, entry j of each from the j-th retained
\* row of the buffer.
C10_RetainedAlignedInOrder ==
    (Len(Retained) >= 1 /\ CountDidNotThrow) =>
        /\ pc # "error"
        /\ pc = "done" =>
              /\ result.boxes = [j \in 1..Len(Retained) |-> Remapped(Retained[j])]
              /\ result.class_ids = [j \in 1..Len(Retained) |-> detections[Retained[j]].class_id]
              /\ result.scores = [j \in 1..Len(Retained) |-> detections[Retained[j]].score]
              /\ Len(result.full_masks) = Len(Retained)
              /\ \A j \in 1..Len(Retained) :
                    result.full_masks[j] =
                        UnmoldMask(mrcnn_mask[Retained[j]][detections[Retained[j]].class_id],
                                   Remapped(Retained[j]), image_shape)

(***************************************************************************)
(* SpecCount: the count step alone, on buffers of up to ByteRange + 2 rows *)
(***************************************************************************)
MaxPatternRows == 3

CountCaps == {0, 1, 2, ByteRange - 1, ByteRange, ByteRange + 1, ByteRange + 2}

InitCount ==
    /\ pc = "UnmoldDetections.count" /\ err = Nil
    /\ image_shape = MkSize(4, 4) /\ window = MkWindow(0, 0, 4, 4)
    /\ \/ \E cap \in CountCaps : \E n \in 0..cap :
            detections = [i \in 1..cap |-> IF i <= n THEN MkRow(<<0, 0, 4, 4>>, 1, 90)
                                           ELSE ZeroRow]
       \/ \E cap \in 0..MaxPatternRows : \E cls \in [1..cap -> 0..1] :
            detections = [i \in 1..cap |-> MkRow(<<0, 0, 4, 4>>, cls[i], 90)]
    /\ mrcnn_mask = <<>>
    /\ N = 0 /\ boxes = <<>> /\ class_ids = Nil /\ scores = <<>> /\ masks = <<>>
    /\ include_ix = Nil /\ full_masks_vec = <<>> /\ result = Nil
    /\ mask = Nil /\ bbox = Nil /\ full_mask = Nil
    /\ IdleResize /\ IdleMold /\ orig_box = Nil

NextCount == CountNoZero \/ CountByte \/ CountThrows

SpecCount == InitCount /\ [][NextCount]_vars

\* C3 (as claimed): the N the count step leaves is the index of the first row
\* whose class_id is zero, or the number of rows when no row has class_id
\* zero, for every capacity and every position of the first zero row.
C3_CountIsFirstZeroRow ==
    pc = "UnmoldDetections.extract" =>
        /\ N <= Len(detections)
        /\ \A j \in 1..N : detections[j].class_id # 0
        /\ N < Len(detections) => detections[N + 1].class_id = 0

(***************************************************************************)
(* SpecRoundTrip: ResizeImage on an image, a box of the original image     *)
(* drawn in the resized frame, and the remapping of UnmoldDetections.      *)
(***************************************************************************)
MaxTripSide == 3
MaxTripDim == 4

InitRoundTrip ==
    /\ pc = "RoundTrip.resize" /\ err = Nil
    /\ image \in {Mat(h, w) : h \in 1..MaxTripSide, w \in 1..MaxTripSide}
    /\ min_dim \in 0..MaxTripDim
    /\ max_dim \in 0..MaxTripDim
    /\ do_padding \in BOOLEAN
    /\ resized = Nil
    /\ orig_box \in {b \in (0..MaxTripSide) \X (0..MaxTripSide) \X (0..MaxTripSide) \X (0..MaxTripSide) :
                        b[1] < b[3] /\ b[3] <= image.rows /\ b[2] < b[4] /\ b[4] <= image.cols}
    /\ IdleMold /\ IdleMask /\ IdleUnmold

TripResize ==
    /\ pc = "RoundTrip.resize"
    /\ ResizeImage(image, min_dim, max_dim, do_padding).ok
    /\ resized' = ResizeImage(image, min_dim, max_dim, do_padding)
    /\ pc' = "RoundTrip.draw"
    /\ UNCHANGED <<err, image, min_dim, max_dim, do_padding, moldVars, maskVars, unmoldVars, orig_box>>

TripResizeThrows ==
    /\ pc = "RoundTrip.resize"
    /\ ~ResizeImage(image, min_dim, max_dim, do_padding).ok
    /\ err' = ResizeImage(image, min_dim, max_dim, do_padding).err
    /\ pc' = "error"
    /\ UNCHANGED <<resizeVars, moldVars, maskVars, unmoldVars, orig_box>>

\* A coordinate of the original image in the resized frame: times the scale,
\* rounded, plus the window offset.
DrawCoord(c, scale, offset) == FRound(FMul(c, scale)) + offset

\* The detections buffer holds the box as the network would report it; the
\* call gets the original image size and the window ResizeImage returned.
TripDraw ==
    /\ pc = "RoundTrip.draw"
    /\ detections' = <<MkRow(<<DrawCoord(orig_box[1], resized.scale, resized.window.y1),
                               DrawCoord(orig_box[2], resized.scale, resized.window.x1),
                               DrawCoord(orig_box[3], resized.scale, resized.window.y1),
                               DrawCoord(orig_box[4], resized.scale, resized.window.x1)>>,
                             1, 90)>>
    /\ mrcnn_mask' = StackByClass(1)
    /\ window' = resized.window
    /\ image_shape' = MkSize(image.cols, image.rows)
    /\ pc' = "UnmoldDetections.count"
    /\ UNCHANGED <<err, resizeVars, moldVars, mask, bbox, full_mask, N, boxes, class_ids,
                   scores, masks, include_ix, full_masks_vec, result, orig_box>>

NextRoundTrip ==
    TripResize \/ TripResizeThrows \/ TripDraw \/ CountNoZero \/ Extract \/ Remap

SpecRoundTrip == InitRoundTrip /\ [][NextRoundTrip]_vars

Abs(x) == IF x < 0 THEN -x ELSE x

\* C6 (as claimed): for every upscale (scale >= 1), with or without padding,
\* the remapping recovers each coordinate of the original box within 1 pixel.
C6_RoundTripWithinOnePixel ==
    (pc = "UnmoldDetections.filter" /\ ~FLess(resized.scale, One)) =>
        \A j \in 1..4 : Abs(boxes[1][j] - orig_box[j]) <= 1

====
